---- MODULE Spec2Model ----
(***************************************************************************)
(* Model of sw2almond.py: the SuperWhisper -> Almond vocabulary migration. *)
(*                                                                         *)
(* Strings are sequences of one-character strings, compared by code point  *)
(* as Python compares them.  A JSON document that load_json could not read *)
(* is the value None.                                                      *)
(***************************************************************************)
EXTENDS Integers, Sequences, FiniteSets, TLC

(***************************************************************************)
(* Bounds of the model.                                                    *)
(***************************************************************************)
MaxVocab == 2        \* vocabulary terms in the primary settings document
MaxRules == 2        \* replacement rules in the primary settings document
MaxVariants == 2     \* variants of one entry handed to merge_dictionaries

(***************************************************************************)
(* Strings.                                                                *)
(***************************************************************************)
CodePoint ==
    (" " :> 32) @@ ("-" :> 45) @@ ("." :> 46) @@ ("/" :> 47) @@ (":" :> 58) @@
    ("@" :> 64) @@ ("E" :> 69) @@ ("I" :> 73) @@ ("M" :> 77) @@ ("R" :> 82) @@
    ("a" :> 97) @@ ("b" :> 98) @@ ("c" :> 99) @@ ("d" :> 100) @@ ("e" :> 101) @@
    ("f" :> 102) @@ ("h" :> 104) @@ ("i" :> 105) @@ ("k" :> 107) @@
    ("l" :> 108) @@ ("m" :> 109) @@ ("n" :> 110) @@ ("o" :> 111) @@
    ("p" :> 112) @@ ("r" :> 114) @@ ("s" :> 115) @@ ("t" :> 116) @@
    ("u" :> 117) @@ ("w" :> 119) @@ ("x" :> 120) @@ ("y" :> 121) @@
    ("z" :> 122)

\* the upper-case letters of CodePoint and their lower-case forms
LowerCase == ("E" :> "e") @@ ("I" :> "i") @@ ("M" :> "m") @@ ("R" :> "r")

LowerChar(c) == IF c \in DOMAIN LowerCase THEN LowerCase[c] ELSE c

\* str.lower()
lower(s) == [i \in 1..Len(s) |-> LowerChar(s[i])]

IsSpace(c) == c = " "

RECURSIVE lstrip(_)
lstrip(s) == IF s # <<>> /\ IsSpace(Head(s)) THEN lstrip(Tail(s)) ELSE s

RECURSIVE rstrip(_)
rstrip(s) ==
    IF s # <<>> /\ IsSpace(s[Len(s)]) THEN rstrip(SubSeq(s, 1, Len(s) - 1)) ELSE s

\* str.strip()
strip(s) == rstrip(lstrip(s))

\* str.startswith(prefix)
startswith(s, prefix) ==
    Len(prefix) <= Len(s) /\ SubSeq(s, 1, Len(prefix)) = prefix

\* the Python expression `sub in s` on two strings
contains(s, sub) ==
    \E i \in 1..(Len(s) - Len(sub) + 1) : SubSeq(s, i, i + Len(sub) - 1) = sub

\* Python's < on strings: lexicographic on code points, a proper prefix first
RECURSIVE StrLess(_, _)
StrLess(a, b) ==
    IF b = <<>> THEN FALSE
    ELSE IF a = <<>> THEN TRUE
    ELSE IF Head(a) = Head(b) THEN StrLess(Tail(a), Tail(b))
    ELSE CodePoint[Head(a)] < CodePoint[Head(b)]

Range(q) == {q[i] : i \in 1..Len(q)}

\* sorted(S) of a set of strings
RECURSIVE sorted(_)
sorted(S) ==
    IF S = {} THEN <<>>
    ELSE LET m == CHOOSE x \in S : \A y \in S \ {x} : StrLess(x, y)
         IN  <<m>> \o sorted(S \ {m})

\* the sequences over S of length at most n in which no element repeats
RECURSIVE UniqueSeqs(_, _)
UniqueSeqs(S, n) ==
    IF n = 0 THEN {<<>>}
    ELSE LET shorter == UniqueSeqs(S, n - 1)
         IN  shorter \cup
             UNION { {Append(q, x) : x \in S \ Range(q)} :
                       q \in {p \in shorter : Len(p) = n - 1} }

IsSortedSeq(q) == \A i \in 1..(Len(q) - 1) : StrLess(q[i], q[i + 1])

(***************************************************************************)
(* load_json and load_superwhisper_settings.                               *)
(***************************************************************************)
None == [ok |-> FALSE]

Document(vocabulary, replacements) ==
    [ok |-> TRUE, vocabulary |-> vocabulary, replacements |-> replacements]

\* `if current:` -- None is falsy; the empty object {} is falsy too and
\* contributes what a document with two empty lists contributes, nothing
Truthy(doc) == doc.ok

\* the `if key[0] and key[1]` test on one rule
KeepRule(r) == r.original # <<>> /\ r.with # <<>>

\* the replacements dict keyed by (original, with): a rule already present
\* keeps its position, for `replacements[key] = r` and for setdefault alike
RECURSIVE AddRules(_, _)
AddRules(replacements, rules) ==
    IF rules = <<>> THEN replacements
    ELSE LET r == Head(rules)
         IN  AddRules(IF KeepRule(r) /\ r \notin Range(replacements)
                      THEN Append(replacements, r)
                      ELSE replacements,
                      Tail(rules))

\* one `if data:` block: the terms join the set, the rules join the dict
LoadDocument(acc, doc) ==
    IF Truthy(doc)
    THEN [vocabulary |-> acc.vocabulary \cup Range(doc.vocabulary),
          replacements |-> AddRules(acc.replacements, doc.replacements)]
    ELSE acc

RECURSIVE LoadBackups(_, _)
LoadBackups(acc, backups) ==
    IF backups = <<>> THEN acc
    ELSE LoadBackups(LoadDocument(acc, Head(backups)), Tail(backups))

load_superwhisper_settings(current, backups, scan_backups) ==
    LET start    == [vocabulary |-> {}, replacements |-> <<>>]
        primary  == LoadDocument(start, current)
        all      == IF scan_backups THEN LoadBackups(primary, backups) ELSE primary
    IN  [vocabulary |-> sorted(all.vocabulary), replacements |-> all.replacements]

(***************************************************************************)
(* classify_replacement.                                                   *)
(***************************************************************************)
macro_triggers ==
    { <<"i","n","p","u","t"," ","m","y">>,
      <<"m","y"," ","e","m","a","i","l">>,
      <<"m","y"," ","a","d","d","r","e","s","s">>,
      <<"m","y"," ","p","h","o","n","e">>,
      <<"m","y"," ","z","i","p">>,
      <<"m","y"," ","n","a","m","e">>,
      <<"d","e","p","l","o","y","m","e","n","t"," ","o","n">> }

classify_replacement(r) ==
    LET original  == lower(r.original)
        with_text == r.with
    IN  IF startswith(with_text, <<"/">>) THEN "command"
        ELSE IF \E trigger \in macro_triggers : contains(original, trigger)
             THEN "macro"
        ELSE IF contains(with_text, <<":","/","/">>)
                \/ startswith(with_text, <<"h","t","t","p">>)
             THEN "macro"
        ELSE "spelling"

(***************************************************************************)
(* build_almond_entries.  The entries dict is a sequence of its items in   *)
(* insertion order.                                                        *)
(***************************************************************************)
Keys(entries) == {entries[i].key : i \in 1..Len(entries)}

IndexOf(entries, key) == CHOOSE i \in 1..Len(entries) : entries[i].key = key

Entry(entries, key) == entries[IndexOf(entries, key)]

\* AddVocabulary with the `if key not in entries` test lost: the last term wins
RECURSIVE AddVocabulary_LastWins(_, _)
AddVocabulary_LastWins(entries, vocabulary) ==
    IF vocabulary = <<>> THEN entries
    ELSE LET term == Head(vocabulary)
             key  == strip(lower(term))
             e    == [key |-> key, canonical |-> term, isAutoAdded |-> FALSE,
                      variants |-> <<>>]
         IN  AddVocabulary_LastWins(
                 IF key = <<>> THEN entries
                 ELSE IF key \in Keys(entries)
                 THEN [entries EXCEPT ![IndexOf(entries, key)] = e]
                 ELSE Append(entries, e),
                 Tail(vocabulary))

RECURSIVE AddVocabulary(_, _)
AddVocabulary(entries, vocabulary) ==
    IF vocabulary = <<>> THEN entries
    ELSE LET term == Head(vocabulary)
             key  == strip(lower(term))
         IN  AddVocabulary(
                 IF key # <<>> /\ key \notin Keys(entries)
                 THEN Append(entries, [key |-> key, canonical |-> term,
                                       isAutoAdded |-> FALSE, variants |-> <<>>])
                 ELSE entries,
                 Tail(vocabulary))

\* PassesGate with the include_macros test lost
PassesGate_MacrosAlways(r, include_macros) ==
    /\ classify_replacement(r) # "command"
    /\ lower(strip(r.with)) # <<>>

\* the `continue` tests of the replacement loop: TRUE when the rule reaches
\* the `if key in entries` statement
PassesGate(r, include_macros) ==
    /\ classify_replacement(r) # "command"
    /\ ~(classify_replacement(r) = "macro" /\ ~include_macros)
    /\ lower(strip(r.with)) # <<>>

\* one iteration of the replacement loop
AddReplacement(entries, r, include_macros) ==
    LET original  == strip(r.original)
        with_text == strip(r.with)
        key       == lower(with_text)
    IN  IF ~PassesGate(r, include_macros) THEN entries
        ELSE IF key \in Keys(entries)
        THEN LET i == IndexOf(entries, key)
             IN  IF original # <<>> /\ original \notin Range(entries[i].variants)
                 THEN [entries EXCEPT ![i].variants = Append(@, original)]
                 ELSE entries
        ELSE Append(entries,
                    [key |-> key, canonical |-> with_text, isAutoAdded |-> FALSE,
                     variants |-> IF original # <<>> THEN <<original>> ELSE <<>>])

RECURSIVE AddReplacements(_, _, _)
AddReplacements(entries, replacements, include_macros) ==
    IF replacements = <<>> THEN entries
    ELSE AddReplacements(AddReplacement(entries, Head(replacements), include_macros),
                         Tail(replacements), include_macros)

build_almond_entries(vocabulary, replacements, include_macros) ==
    AddReplacements(AddVocabulary(<<>>, vocabulary), replacements, include_macros)

(***************************************************************************)
(* merge_dictionaries.  Python dicts hold references: `heap` maps each     *)
(* entry object to its fields, and a dict of entries is a sequence of      *)
(* [key, ref] items in insertion order.                                    *)
(***************************************************************************)
Ref(src, key) == [src |-> src, key |-> key]

\* the objects of a freshly parsed or freshly built dict of entries
HeapOf(src, entries) ==
    [ref \in {Ref(src, k) : k \in Keys(entries)} |->
        LET e == Entry(entries, ref.key)
        IN  [canonical |-> e.canonical, isAutoAdded |-> e.isAutoAdded,
             variants |-> e.variants]]

RefsOf(src, entries) ==
    [i \in 1..Len(entries) |-> [key |-> entries[i].key, ref |-> Ref(src, entries[i].key)]]

\* the entries a dict of references denotes in a heap
Resolve(h, dict) ==
    [i \in 1..Len(dict) |->
        [key |-> dict[i].key, canonical |-> h[dict[i].ref].canonical,
         isAutoAdded |-> h[dict[i].ref].isAutoAdded,
         variants |-> h[dict[i].ref].variants]]

\* SetVariants with the assignment lost
SetVariants_Lost(h, ref, variants) == h

\* line 231: the variants of the object that merged[key] refers to
SetVariants(h, ref, variants) == [h EXCEPT ![ref].variants = variants]

\* MergeItem that lets the candidate entry replace an existing one
MergeItem_Overwrite(st, item) ==
    IF item.key \in Keys(st.merged)
    THEN [st EXCEPT !.merged[IndexOf(st.merged, item.key)] = item,
                    !.stats.skipped = @ + 1]
    ELSE [st EXCEPT !.merged = Append(@, item), !.stats.added = @ + 1]

\* MergeItem that stores the candidate's variants instead of the union
MergeItem_NewOnly(st, item) ==
    IF item.key \in Keys(st.merged)
    THEN LET ref               == Entry(st.merged, item.key).ref
             existing_variants == Range(st.heap[ref].variants)
             new_variants      == Range(st.heap[item.ref].variants)
             added_variants    == new_variants \ existing_variants
         IN  IF added_variants # {}
             THEN [st EXCEPT
                      !.heap = SetVariants(@, ref, sorted(new_variants)),
                      !.stats.merged_variants = @ + Cardinality(added_variants)]
             ELSE [st EXCEPT !.stats.skipped = @ + 1]
    ELSE [st EXCEPT !.merged = Append(@, item), !.stats.added = @ + 1]

\* one iteration of `for key, entry in new_entries.items()`
MergeItem(st, item) ==
    IF item.key \in Keys(st.merged)
    THEN LET ref               == Entry(st.merged, item.key).ref
             existing_variants == Range(st.heap[ref].variants)
             new_variants      == Range(st.heap[item.ref].variants)
             added_variants    == new_variants \ existing_variants
         IN  IF added_variants # {}
             THEN [st EXCEPT
                      !.heap = SetVariants(@, ref,
                                   sorted(existing_variants \cup new_variants)),
                      !.stats.merged_variants = @ + Cardinality(added_variants)]
             ELSE [st EXCEPT !.stats.skipped = @ + 1]
    ELSE [st EXCEPT !.merged = Append(@, item), !.stats.added = @ + 1]

RECURSIVE MergeItems(_, _)
MergeItems(st, items) ==
    IF items = <<>> THEN st ELSE MergeItems(MergeItem(st, Head(items)), Tail(items))

\* returns the heap after the call, the merged dict and the stats
merge_dictionaries(h, existing_entries, new_items) ==
    MergeItems([heap |-> h, merged |-> existing_entries,
                stats |-> [added |-> 0, merged_variants |-> 0, skipped |-> 0]],
               new_items)

(***************************************************************************)
(* Sample inputs.                                                          *)
(***************************************************************************)
Rule(original, with) == [original |-> original, with |-> with]

VocabularyTerms ==
    { <<"R","e","s","y","n","c">>, <<"r","e","s","y","n","c">>, <<" ">> }

SampleRules ==
    { Rule(<<"r","e","i","n","k">>, <<"R","e","-","I","n","k">>),
      Rule(<<"M","y"," ","e","m","a","i","l">>,
           <<"f","o","o","@","b","a","r",".","c","o","m">>),
      Rule(<<"m","y"," ","n","a","m","e">>, <<"/","m","e">>),
      Rule(<<"s","i","t","e">>, <<"x",":","/","/","y">>),
      Rule(<<" ">>, <<"R","e","s","y","n","c">>),
      Rule(<<"x">>, <<" ">>),
      Rule(<<"c","m","d">>, <<" ","/","x">>) }

\* what settings.json can hold: unreadable, or terms and rules
PrimaryDocuments ==
    {None} \cup
    { Document(v, r) : v \in UniqueSeqs(VocabularyTerms, MaxVocab),
                       r \in UniqueSeqs(SampleRules, MaxRules) }

\* what one settings.backup.*.json can hold
SnapshotA ==
    Document(<< <<"R","e","s","y","n","c">> >>,
             << Rule(<<"r","e","i","n","k">>, <<"R","e","-","I","n","k">>),
                Rule(<<"r","e","i","n","k">>, <<"r","e","-","i","n","k">>) >>)

SnapshotB ==
    Document(<< <<"r","e","s","y","n","c">> >>,
             << Rule(<<"x">>, <<>>), Rule(<<>>, <<"x">>),
                Rule(<<"w","e","b">>, <<"h","t","t","p">>),
                Rule(<<"r","e"," ","i","n","k">>, <<"R","e","-","I","n","k">>) >>)

\* the backups in the order sorted(glob.glob(...)) visits them
SnapshotLists ==
    { <<>>, <<SnapshotA>>, <<SnapshotB>>, <<None, SnapshotA>>,
      <<SnapshotB, SnapshotA>> }

MergeKeys == << <<"r","e","-","i","n","k">>, <<"r","e","s","y","n","c">> >>

ExistingCanonical == << <<"R","e","-","I","n","k">>, <<"R","e","s","y","n","c">> >>

CandidateCanonical == << <<"r","e","-","i","n","k">>, <<"r","e","s","y","n","c">> >>

VariantStrings ==
    { <<"r","e","i","n","k">>, <<"r","e"," ","i","n","k">>, <<"R","e","i","n","k">> }

ExistingAutoAdded == <<TRUE, FALSE>>

CandidateAutoAdded == <<FALSE, TRUE>>

EntryChoices(i, canonical, flags) ==
    { [key |-> MergeKeys[i], canonical |-> canonical[i], isAutoAdded |-> flags[i],
       variants |-> v] : v \in UniqueSeqs(VariantStrings, MaxVariants) }

\* dicts of entries over MergeKeys, each key present or absent
Dicts(canonical, flags) ==
    { (IF e1 = None THEN <<>> ELSE <<e1>>) \o (IF e2 = None THEN <<>> ELSE <<e2>>) :
        e1 \in {None} \cup EntryChoices(1, canonical, flags),
        e2 \in {None} \cup EntryChoices(2, canonical, flags) }

NoStats == [added |-> 0, merged_variants |-> 0, skipped |-> 0]

(***************************************************************************)
(* State.                                                                  *)
(***************************************************************************)
VARIABLES
    pc,            \* the position of the run
    args,          \* the parsed command line
    current,       \* what settings.json holds
    backups,       \* what the settings.backup.*.json files hold
    vocabulary,    \* first result of load_superwhisper_settings
    replacements,  \* second result of load_superwhisper_settings
    new_entries,   \* result of build_almond_entries
    heap,          \* the entry objects the dicts refer to
    existing,      \* existing["entries"], the first argument of the merge
    candidate,     \* new_entries, the second argument of the merge
    heap0,         \* the heap before the first merge
    merged1,       \* the dict the first merge returned
    stats1,        \* the stats the first merge returned
    heap1,         \* the heap after the first merge
    merged2,       \* the dict the second merge returned
    stats2,        \* the stats the second merge returned
    env,           \* what the run finds: settings.json, the pgrep probe
    target0,       \* the file at almond_path when the run starts
    target,        \* the file at almond_path
    backup_files,  \* the <almond_path>.backup.<timestamp> copies
    export_file,   \* the file at the --export path
    writes         \* the files written by the run, in order

sourceVars == <<args, current, backups>>
loadVars   == <<vocabulary, replacements, new_entries>>
mergeVars  == <<heap, existing, candidate, heap0, merged1, stats1, heap1,
                merged2, stats2>>
fileVars   == <<env, target0, target, backup_files, export_file, writes>>
vars       == <<pc, sourceVars, loadVars, mergeVars, fileVars>>

NoArgs ==
    [apply |-> FALSE, export |-> FALSE, force |-> FALSE, sw_path |-> FALSE,
     scan_backups |-> FALSE, include_macros |-> FALSE]

NoSource == /\ args = NoArgs
            /\ current = None
            /\ backups = <<>>

NothingLoaded == /\ vocabulary = <<>>
                 /\ replacements = <<>>
                 /\ new_entries = <<>>

NothingMerged == /\ heap = <<>>
                 /\ existing = <<>>
                 /\ candidate = <<>>
                 /\ heap0 = <<>>
                 /\ merged1 = <<>>
                 /\ stats1 = NoStats
                 /\ heap1 = <<>>
                 /\ merged2 = <<>>
                 /\ stats2 = NoStats

NoEnv == [settings_exists |-> TRUE, probe |-> "stopped"]

NoFiles == /\ env = NoEnv
           /\ target0 = "absent"
           /\ target = "absent"
           /\ backup_files = <<>>
           /\ export_file = "absent"
           /\ writes = <<>>

(***************************************************************************)
(* SpecBuild: load_superwhisper_settings, then build_almond_entries, on    *)
(* the sample documents.                                                   *)
(***************************************************************************)
InitBuild ==
    /\ pc = "start"
    /\ current \in PrimaryDocuments
    /\ backups \in SnapshotLists
    /\ \E scan \in BOOLEAN, macros \in BOOLEAN :
          args = [NoArgs EXCEPT !.scan_backups = scan, !.include_macros = macros]
    /\ NothingLoaded
    /\ NothingMerged
    /\ NoFiles

LoadSettings ==
    /\ pc = "start"
    /\ LET loaded == load_superwhisper_settings(current, backups, args.scan_backups)
       IN  /\ vocabulary' = loaded.vocabulary
           /\ replacements' = loaded.replacements
    /\ pc' = "loaded"
    /\ UNCHANGED <<sourceVars, new_entries, mergeVars, fileVars>>

BuildEntries ==
    /\ pc = "loaded"
    /\ new_entries' = build_almond_entries(vocabulary, replacements, args.include_macros)
    /\ pc' = "built"
    /\ UNCHANGED <<sourceVars, vocabulary, replacements, mergeVars, fileVars>>

NextBuild == LoadSettings \/ BuildEntries

SpecBuild == InitBuild /\ [][NextBuild]_vars

(***************************************************************************)
(* SpecMerge: merge_dictionaries called on an existing dictionary and a    *)
(* candidate mapping, then called again on its own result with the same    *)
(* candidate mapping.                                                      *)
(***************************************************************************)
InitMerge ==
    /\ pc = "start"
    /\ NoSource
    /\ NothingLoaded
    /\ \E E \in Dicts(ExistingCanonical, ExistingAutoAdded),
          C \in Dicts(CandidateCanonical, CandidateAutoAdded) :
          /\ heap = HeapOf("existing", E) @@ HeapOf("new", C)
          /\ existing = RefsOf("existing", E)
          /\ candidate = RefsOf("new", C)
    /\ heap0 = heap
    /\ merged1 = <<>>
    /\ stats1 = NoStats
    /\ heap1 = <<>>
    /\ merged2 = <<>>
    /\ stats2 = NoStats
    /\ NoFiles

Merge ==
    /\ pc = "start"
    /\ LET result == merge_dictionaries(heap, existing, candidate)
       IN  /\ heap' = result.heap
           /\ heap1' = result.heap
           /\ merged1' = result.merged
           /\ stats1' = result.stats
    /\ pc' = "merged"
    /\ UNCHANGED <<sourceVars, loadVars, existing, candidate, heap0, merged2, stats2,
                   fileVars>>

MergeAgain ==
    /\ pc = "merged"
    /\ LET result == merge_dictionaries(heap, merged1, candidate)
       IN  /\ heap' = result.heap
           /\ merged2' = result.merged
           /\ stats2' = result.stats
    /\ pc' = "remerged"
    /\ UNCHANGED <<sourceVars, loadVars, existing, candidate, heap0, merged1, stats1,
                   heap1, fileVars>>

NextMerge == Merge \/ MergeAgain

SpecMerge == InitMerge /\ [][NextMerge]_vars

(***************************************************************************)
(* Spec: one run of main().                                                *)
(***************************************************************************)
\* what settings.json holds in a run
RunDocuments ==
    { None,
      Document(<<>>, <<>>),
      Document(<< <<"R","e","s","y","n","c">> >>,
               << Rule(<<"r","e","i","n","k">>, <<"R","e","-","I","n","k">>) >>) }

\* what the file at almond_path holds when the run starts: no file, a file
\* load_json cannot read, or the entries of a dictionary
RunTargets ==
    { "absent", "corrupt",
      << [key |-> <<"r","e","-","i","n","k">>, canonical |-> <<"R","e","-","I","n","k">>,
          isAutoAdded |-> TRUE, variants |-> <<>>] >>,
      << [key |-> <<"r","e","-","i","n","k">>, canonical |-> <<"R","e","-","I","n","k">>,
          isAutoAdded |-> FALSE, variants |-> << <<"r","e","i","n","k">> >>],
         [key |-> <<"r","e","s","y","n","c">>, canonical |-> <<"R","e","s","y","n","c">>,
          isAutoAdded |-> FALSE, variants |-> <<>>] >> }

\* os.path.exists(path)
exists(file) == file # "absent"

load_almond_dictionary(file) ==
    IF exists(file) /\ file # "corrupt" THEN file ELSE <<>>

\* lines 389-417 with the refusal lost
AlmondRefusal_Never(a, probe) == FALSE

\* lines 389-417: the probe runs for an apply without export, and the run
\* exits when pgrep found the application and --force is not given
AlmondRefusal(a, probe) ==
    a.apply /\ ~a.export /\ probe = "running" /\ ~a.force

Init ==
    /\ pc = "start"
    /\ args \in [apply : BOOLEAN, export : BOOLEAN, force : BOOLEAN, sw_path : BOOLEAN,
                  scan_backups : BOOLEAN, include_macros : BOOLEAN]
    /\ current \in RunDocuments
    /\ backups \in SnapshotLists
    /\ env \in [settings_exists : BOOLEAN, probe : {"running", "stopped", "no_pgrep"}]
    /\ target0 \in RunTargets
    /\ target = target0
    /\ backup_files = <<>>
    /\ export_file = "absent"
    /\ writes = <<>>
    /\ NothingLoaded
    /\ NothingMerged

\* lines 367-386: no data directory found, or no settings.json under --sw-path
FindSuperwhisper ==
    /\ pc = "start"
    /\ pc' = IF env.settings_exists THEN "probe" ELSE "exit_no_source"
    /\ UNCHANGED <<sourceVars, loadVars, mergeVars, fileVars>>

\* lines 388-419
ProbeAlmond ==
    /\ pc = "probe"
    /\ pc' = IF AlmondRefusal(args, env.probe) THEN "exit_almond_running" ELSE "load"
    /\ UNCHANGED <<sourceVars, loadVars, mergeVars, fileVars>>

\* lines 429-436
LoadSource ==
    /\ pc = "load"
    /\ LET loaded == load_superwhisper_settings(current, backups, args.scan_backups)
       IN  /\ vocabulary' = loaded.vocabulary
           /\ replacements' = loaded.replacements
           /\ pc' = IF loaded.vocabulary = <<>> /\ loaded.replacements = <<>>
                    THEN "exit_nothing_found" ELSE "build"
    /\ UNCHANGED <<sourceVars, new_entries, mergeVars, fileVars>>

\* lines 438-464
BuildAndMerge ==
    /\ pc = "build"
    /\ LET built       == build_almond_entries(vocabulary, replacements,
                                               args.include_macros)
           almond_dict == load_almond_dictionary(target)
           before      == HeapOf("existing", almond_dict) @@ HeapOf("new", built)
           result      == merge_dictionaries(before, RefsOf("existing", almond_dict),
                                             RefsOf("new", built))
       IN  /\ new_entries' = built
           /\ existing' = RefsOf("existing", almond_dict)
           /\ candidate' = RefsOf("new", built)
           /\ heap0' = before
           /\ heap' = result.heap
           /\ heap1' = result.heap
           /\ merged1' = result.merged
           /\ stats1' = result.stats
    /\ pc' = "output"
    /\ UNCHANGED <<sourceVars, vocabulary, replacements, merged2, stats2, fileVars>>

\* lines 467-470
Export ==
    /\ pc = "output"
    /\ args.export
    /\ export_file' = Resolve(heap, merged1)
    /\ writes' = Append(writes, "export")
    /\ pc' = "done"
    /\ UNCHANGED <<sourceVars, loadVars, mergeVars, env, target0, target, backup_files>>

\* neither branch of lines 467-472 taken
DryRun ==
    /\ pc = "output"
    /\ ~args.export /\ ~args.apply
    /\ pc' = "done"
    /\ UNCHANGED <<sourceVars, loadVars, mergeVars, fileVars>>

\* lines 473-475
NothingToChange ==
    /\ pc = "output"
    /\ ~args.export /\ args.apply
    /\ stats1.added = 0 /\ stats1.merged_variants = 0
    /\ pc' = "done"
    /\ UNCHANGED <<sourceVars, loadVars, mergeVars, fileVars>>

\* Backup with the copy left out
Backup_Skipped ==
    /\ pc = "output"
    /\ ~args.export /\ args.apply
    /\ ~(stats1.added = 0 /\ stats1.merged_variants = 0)
    /\ pc' = "write"
    /\ UNCHANGED <<sourceVars, loadVars, mergeVars, fileVars>>

\* lines 477-480 and backup_file: the copy is made when the file exists
Backup ==
    /\ pc = "output"
    /\ ~args.export /\ args.apply
    /\ ~(stats1.added = 0 /\ stats1.merged_variants = 0)
    /\ IF exists(target)
       THEN /\ backup_files' = Append(backup_files, target)
            /\ writes' = Append(writes, "backup")
       ELSE UNCHANGED <<backup_files, writes>>
    /\ pc' = "write"
    /\ UNCHANGED <<sourceVars, loadVars, mergeVars, env, target0, target, export_file>>

\* line 250: shutil.copy2 raises, and the run ends with a traceback
BackupFails ==
    /\ pc = "output"
    /\ ~args.export /\ args.apply
    /\ ~(stats1.added = 0 /\ stats1.merged_variants = 0)
    /\ exists(target)
    /\ pc' = "crashed"
    /\ UNCHANGED <<sourceVars, loadVars, mergeVars, fileVars>>

\* lines 482-488
WriteDictionary ==
    /\ pc = "write"
    /\ target' = Resolve(heap, merged1)
    /\ writes' = Append(writes, "target")
    /\ pc' = "done"
    /\ UNCHANGED <<sourceVars, loadVars, mergeVars, env, target0, backup_files,
                   export_file>>

Next ==
    \/ FindSuperwhisper
    \/ ProbeAlmond
    \/ LoadSource
    \/ BuildAndMerge
    \/ Export
    \/ DryRun
    \/ NothingToChange
    \/ Backup
    \/ BackupFails
    \/ WriteDictionary

Spec == Init /\ [][Next]_vars

(***************************************************************************)
(* Properties of SpecBuild.                                                *)
(***************************************************************************)
RECURSIVE ConcatVocabulary(_)
ConcatVocabulary(docs) ==
    IF docs = <<>> THEN <<>>
    ELSE (IF Head(docs).ok THEN Head(docs).vocabulary ELSE <<>>)
         \o ConcatVocabulary(Tail(docs))

\* every vocabulary term the loader visits, in document scan order
ScannedTerms ==
    ConcatVocabulary(<<current>> \o (IF args.scan_backups THEN backups ELSE <<>>))

Normalized(term) == strip(lower(term))

\* the normalized forms that several scanned terms share
SharedForms ==
    { Normalized(ScannedTerms[i]) : i \in
        { j \in 1..Len(ScannedTerms) :
            \E k \in 1..Len(ScannedTerms) :
                k # j /\ Normalized(ScannedTerms[k]) = Normalized(ScannedTerms[j]) } }

FirstScanned(form) ==
    ScannedTerms[CHOOSE i \in 1..Len(ScannedTerms) :
                    /\ Normalized(ScannedTerms[i]) = form
                    /\ \A j \in 1..(i - 1) : Normalized(ScannedTerms[j]) # form]

LeastScanned(form) ==
    LET terms == {t \in Range(ScannedTerms) : Normalized(t) = form}
    IN  CHOOSE t \in terms : \A u \in terms \ {t} : StrLess(t, u)

EntriesWithKey(key) == {i \in 1..Len(new_entries) : new_entries[i].key = key}

\* C8 as stated: several vocabulary terms with one normalized form give exactly
\* one candidate entry, whose canonical is the first occurrence in scan order
\* (primary first, then the snapshots in order).
C8_FirstScannedCasing ==
    pc = "built" =>
        \A form \in SharedForms :
            /\ Cardinality(EntriesWithKey(form)) = 1
            /\ Entry(new_entries, form).canonical = FirstScanned(form)

\* C8 amended: several vocabulary terms with one non-empty normalized form give
\* exactly one candidate entry, whose canonical is the least of those terms in
\* code-point order, the first of them in the sorted vocabulary the loader
\* returns.
C8_LeastSortedCasing ==
    pc = "built" =>
        \A form \in SharedForms \ {<<>>} :
            /\ Cardinality(EntriesWithKey(form)) = 1
            /\ Entry(new_entries, form).canonical = LeastScanned(form)

\* C8 witness: two casings of one term were scanned, and the entry carries the
\* casing that sorts first although the other one was scanned first.
C8_Witness ==
    /\ pc = "built"
    /\ \E form \in SharedForms \ {<<>>} :
          /\ FirstScanned(form) # LeastScanned(form)
          /\ Entry(new_entries, form).canonical = LeastScanned(form)

\* C9 as stated: no rule whose original or with is empty after trimming is in
\* the replacements list the loader returns.
C9_NoBlankRuleLoaded ==
    pc # "start" =>
        \A i \in 1..Len(replacements) :
            /\ strip(replacements[i].original) # <<>>
            /\ strip(replacements[i].with) # <<>>

\* the steps of the replacement loop: the rule, and the candidate map before
\* and after its iteration
RECURSIVE StepsFrom(_, _)
StepsFrom(entries, rules) ==
    IF rules = <<>> THEN {}
    ELSE LET after == AddReplacement(entries, Head(rules), args.include_macros)
         IN  {[rule |-> Head(rules), before |-> entries, after |-> after]}
                 \cup StepsFrom(after, Tail(rules))

BuildSteps == StepsFrom(AddVocabulary(<<>>, vocabulary), replacements)

\* the rule of the step created an entry or appended a variant
Contributes(step) == step.after # step.before

IsCommand(r) == r.with # <<>> /\ Head(r.with) = "/"

IsMacro(r) ==
    /\ ~IsCommand(r)
    /\ \/ LET spoken == lower(r.original)
          IN  \E trigger \in macro_triggers : contains(spoken, trigger)
       \/ contains(r.with, <<":","/","/">>)
       \/ (Len(r.with) >= Len(<<"h","t","t","p">>)
             /\ SubSeq(r.with, 1, Len(<<"h","t","t","p">>)) = <<"h","t","t","p">>)

\* the claimed condition for a rule to contribute
Gated(r) ==
    /\ ~IsCommand(r)
    /\ ~IsMacro(r) \/ args.include_macros
    /\ strip(r.with) # <<>>

ClassifiedAsClaimed(r) ==
    classify_replacement(r) =
        IF IsCommand(r) THEN "command" ELSE IF IsMacro(r) THEN "macro" ELSE "spelling"

\* C4 as stated: every rule is classified by the first-match priority, and a
\* rule creates an entry or appends a variant if and only if it is not a
\* command, is not a macro unless include_macros, and has a non-blank `with`.
C4_ContributesIffGated ==
    pc = "built" =>
        \A step \in BuildSteps :
            /\ ClassifiedAsClaimed(step.rule)
            /\ Contributes(step) <=> Gated(step.rule)

\* C4 amended: every rule is classified by the first-match priority; a rule that
\* is a command, a macro without include_macros, or has a blank `with` never
\* changes the candidate map; every other rule has its key in the candidate map
\* with its trimmed original, when not empty, among the variants, and it changes
\* the map unless the key was already there and the trimmed original is empty
\* or already a variant.
C4_GatedContribution ==
    pc = "built" =>
        \A step \in BuildSteps :
            LET key      == lower(strip(step.rule.with))
                original == strip(step.rule.original)
            IN  /\ ClassifiedAsClaimed(step.rule)
                /\ IF ~Gated(step.rule) THEN ~Contributes(step)
                   ELSE /\ Cardinality(EntriesWithKey(key)) = 1
                        /\ original = <<>>
                              \/ original \in Range(Entry(new_entries, key).variants)
                        /\ Contributes(step) <=>
                              \/ key \notin Keys(step.before)
                              \/ /\ original # <<>>
                                 /\ original
                                       \notin Range(Entry(step.before, key).variants)

\* C4 witness: with include_macros a macro rule has created its entry, and
\* another rule that passes the gate has changed nothing.
C4_Witness ==
    /\ pc = "built"
    /\ args.include_macros
    /\ \E s1, s2 \in BuildSteps :
          /\ IsMacro(s1.rule) /\ Gated(s1.rule) /\ Contributes(s1)
          /\ Gated(s2.rule) /\ ~Contributes(s2)

(***************************************************************************)
(* Properties of SpecMerge.                                                *)
(***************************************************************************)
\* the entries of a dict as a function of the key
Lookup(h, dict, key) == h[Entry(dict, key).ref]

SharedKeys == Keys(existing) \cap Keys(candidate)

NewVariants(key) ==
    Range(Lookup(heap0, candidate, key).variants)
        \ Range(Lookup(heap0, existing, key).variants)

RECURSIVE SumNewVariants(_)
SumNewVariants(keys) ==
    IF keys = {} THEN 0
    ELSE LET key == CHOOSE k \in keys : TRUE
         IN  Cardinality(NewVariants(key)) + SumNewVariants(keys \ {key})

\* C1: merging the same candidate mapping into the result of the first merge
\* adds nothing, merges no variant, skips every candidate key and returns the
\* entries of the first result.
C1_MergeIdempotent ==
    pc = "remerged" =>
        /\ stats2.added = 0
        /\ stats2.merged_variants = 0
        /\ stats2.skipped = Len(candidate)
        /\ Resolve(heap, merged2) = Resolve(heap1, merged1)

\* C1 witness: the first merge added a key and merged a variant, and the second
\* merge has run.
C1_Witness ==
    /\ pc = "remerged"
    /\ stats1.added > 0
    /\ stats1.merged_variants > 0
    /\ stats2.skipped = Len(candidate)

\* C2: every existing key is in the merged dict with the canonical and
\* isAutoAdded it had; an existing entry no candidate key touches is unchanged,
\* its variants in their order.
C2_ExistingPreserved ==
    pc # "start" =>
        \A key \in Keys(existing) :
            /\ key \in Keys(merged1)
            /\ Lookup(heap1, merged1, key).canonical
                  = Lookup(heap0, existing, key).canonical
            /\ Lookup(heap1, merged1, key).isAutoAdded
                  = Lookup(heap0, existing, key).isAutoAdded
            /\ key \notin Keys(candidate) =>
                  Lookup(heap1, merged1, key) = Lookup(heap0, existing, key)

\* C2 witness: a candidate proposed another canonical and another isAutoAdded
\* for an existing key, and an untouched existing entry has unsorted variants.
C2_Witness ==
    /\ pc = "merged"
    /\ \E key \in SharedKeys :
          /\ Lookup(heap0, candidate, key).canonical
                # Lookup(heap0, existing, key).canonical
          /\ Lookup(heap0, candidate, key).isAutoAdded
                # Lookup(heap0, existing, key).isAutoAdded
    /\ \E key \in Keys(existing) \ Keys(candidate) :
          /\ ~IsSortedSeq(Lookup(heap0, existing, key).variants)
          /\ Lookup(heap1, merged1, key) = Lookup(heap0, existing, key)

\* C3: for a key in both dicts whose candidate brings a new variant, the merged
\* variants are the union, without duplicates, sorted; otherwise the variants
\* stay as they were; merged_variants counts the new strings and skipped the
\* keys that brought none.
C3_VariantUnion ==
    pc # "start" =>
        /\ \A key \in SharedKeys :
              LET before == Lookup(heap0, existing, key).variants
                  after  == Lookup(heap1, merged1, key).variants
              IN  IF NewVariants(key) # {}
                  THEN /\ Range(after) = Range(before)
                             \cup Range(Lookup(heap0, candidate, key).variants)
                       /\ Cardinality(Range(after)) = Len(after)
                       /\ IsSortedSeq(after)
                  ELSE after = before
        /\ stats1.merged_variants = SumNewVariants(SharedKeys)
        /\ stats1.skipped = Cardinality({key \in SharedKeys : NewVariants(key) = {}})

\* C3 witness: existing ["reink"] and candidate ["reink", "re ink"] have become
\* ["re ink", "reink"] with merged_variants = 1.
C3_Witness ==
    /\ pc = "merged"
    /\ MergeKeys[1] \in SharedKeys
    /\ Lookup(heap0, existing, MergeKeys[1]).variants = << <<"r","e","i","n","k">> >>
    /\ Lookup(heap0, candidate, MergeKeys[1]).variants
          = << <<"r","e","i","n","k">>, <<"r","e"," ","i","n","k">> >>
    /\ Lookup(heap1, merged1, MergeKeys[1]).variants
          = << <<"r","e"," ","i","n","k">>, <<"r","e","i","n","k">> >>
    /\ stats1.merged_variants = 1

\* C10 as stated: the existing dictionary passed to merge_dictionaries has the
\* keys and, for every key, the canonical, isAutoAdded and variants it had
\* before the call.
C10_ExistingUntouched ==
    pc # "start" =>
        \A i \in 1..Len(existing) : heap[existing[i].ref] = heap0[existing[i].ref]

(***************************************************************************)
(* Properties of Spec.                                                     *)
(***************************************************************************)
Count(q, x) == Cardinality({i \in 1..Len(q) : q[i] = x})

\* C5 as stated: when settings.json is there but cannot be parsed, no candidate
\* entry is merged and neither the target dictionary nor the export file is
\* written, with or without --scan-backups.
C5_PrimaryFailureIsFatal ==
    (env.settings_exists /\ current = None) =>
        /\ candidate = <<>>
        /\ writes = <<>>
        /\ target = target0
        /\ export_file = "absent"

\* the probe ran and reported the application as running
ProbeReportedRunning ==
    /\ args.apply /\ ~args.export
    /\ env.probe = "running"
    /\ pc \notin {"start", "probe", "exit_no_source"}

\* C6: when the probe reports the application running and --force is not given,
\* the run has ended before loading any source and has written nothing; with
\* --force it has gone on to the loading step.
C6_ConflictingWriterRefused ==
    ProbeReportedRunning =>
        IF args.force
        THEN pc # "exit_almond_running"
        ELSE /\ pc = "exit_almond_running"
             /\ NothingLoaded
             /\ candidate = <<>>
             /\ writes = <<>>
             /\ backup_files = <<>>
             /\ target = target0

\* C6 witness: the run was refused while a target dictionary that the merge
\* would have changed was on disk.
C6_Witness ==
    /\ ProbeReportedRunning
    /\ ~args.force
    /\ pc = "exit_almond_running"
    /\ current # None
    /\ exists(target0) /\ target0 # "corrupt" /\ Len(target0) = 1

====
